---- MODULE Spec2Model ----
(***************************************************************************)
(* Model of the internship bots: main.py (DualPlatformInternshipBot, two   *)
(* scrapers) and bot.py (InternshipBot, single AICTE source).  One cycle   *)
(* is run_check: fetch + filter per source, get_new_internships (load,     *)
(* diff, add, save with truncation), per-posting sends, summary.  The      *)
(* scheduler (start_scheduler) runs the first cycle immediately and then   *)
(* one per tick.                                                            *)
(***************************************************************************)
EXTENDS Integers, Sequences, FiniteSets, TLC

\* ---- bounds -------------------------------------------------------------
\* scaled-down caps of save_seen_internships (2000 in main.py, 1000 in bot.py)
SeenCapMain == 2
SeenCapBot == 1
\* longest posting list one fetch returns, single-cycle runs
MaxBatch == 3
\* number of run_check cycles explored by SpecTwo, and its fetch length
MaxCycles == 2
MaxBatchTwo == 1
\* filter_by_domain inputs: longest text, longest posting list
MaxTextLen == 2
MaxFilterLen == 2
\* fetches of one listing compared by SpecId
MaxPolls == 2

\* ---- postings -------------------------------------------------------------
\* Texts are sequences of characters; LowerChar is str.lower on them.
LowerCharIdentity(c) == c

LowerChar(c) == IF c = "M" THEN "m" ELSE IF c = "L" THEN "l" ELSE c
Lower(s) == [k \in 1..Len(s) |-> LowerChar(s[k])]

\* interest terms (preferred_domains), "ml" as a character sequence
PreferredDomains == << <<"m", "l">> >>

Posting(i, plat, nm, co, url) ==
    [id |-> i, platform |-> plat, name |-> nm, company |-> co, details_url |-> url]

PA1 == Posting("a1", "AICTE", <<"M", "L">>, <<"x">>, "u")
PA2 == Posting("a2", "AICTE", <<"a", "m", "l">>, <<"x">>, "none")
PA3 == Posting("a3", "AICTE", <<"w", "e", "b">>, <<"x">>, "u")
PB1 == Posting("b1", "Internshala", <<"m", "l">>, <<"y">>, "u")
PB2 == Posting("b2", "Internshala", <<"w", "e", "b">>, <<"y">>, "u")

\* ids the seen file can hold: those of matching postings, and "old" for a
\* listing that is no longer fetched (a3 and b2 never match, so in the file
\* they would behave exactly like "old")
Ids == {"a1", "a2", "b1", "old"}

\* ---- pure helpers ---------------------------------------------------------
IsSubstr(t, s) ==
    \/ Len(t) = 0
    \/ \E k \in 0..(Len(s) - Len(t)) : \A j \in 1..Len(t) : s[k + j] = t[j]

\* search_text = f"{name} {company} {internship.get('description', '')}".lower()
SearchText(p) ==
    Lower(p.name \o <<" ">> \o p.company \o <<" ">>
          \o (IF "description" \in DOMAIN p THEN p.description ELSE <<>>))

\* any(domain.lower() in search_text for domain in preferred_domains)
MatchesWithEmptyAll(p, terms) ==
    Len(terms) = 0 \/ \E d \in 1..Len(terms) : IsSubstr(Lower(terms[d]), SearchText(p))

MatchesWith(p, terms) == \E d \in 1..Len(terms) : IsSubstr(Lower(terms[d]), SearchText(p))

FilterWith(s, terms) == SelectSeq(s, LAMBDA p : MatchesWith(p, terms))

Matches(p) == MatchesWith(p, PreferredDomains)

\* filter_by_domain: matching postings in input order
FilterByDomain(s) == FilterWith(s, PreferredDomains)

IdsOf(s) == {s[k].id : k \in 1..Len(s)}

NewOfIgnoringSeen(s, seen) == s

\* new_internships = [i for i in internships if i['id'] not in seen]
NewOf(s, seen) == LET NotSeen(p) == p.id \notin seen IN SelectSeq(s, NotSeen)

\* list(seen_ids)[-cap:]: a Python set iterates in hash order (string hashes
\* are salted per process), so the kept slice is any cap-sized subset.
TruncOutcomesUncapped(seen, cap) == {seen}

TruncOutcomes(seen, cap) ==
    IF Cardinality(seen) <= cap THEN {seen}
    ELSE {t \in SUBSET seen : Cardinality(t) = cap}

RECURSIVE SumOver(_, _)
SumOver(S, f) == IF S = {} THEN 0
                 ELSE LET x == CHOOSE y \in S : TRUE IN f[x] + SumOver(S \ {x}, f)

RECURSIVE SeqsUpTo(_, _)
SeqsUpTo(S, n) == IF n = 0 THEN {<<>>}
                  ELSE {<<>>} \cup {<<x>> \o r : x \in S, r \in SeqsUpTo(S, n - 1)}

\* ---- configuration ---------------------------------------------------------
Impls == {"main", "bot"}
\* main.py __init__: self.scrapers from ENABLE_AICTE / ENABLE_INTERNSHALA
ScraperList(aicteOn, internshalaOn) ==
    (IF aicteOn THEN <<"AICTE">> ELSE <<>>) \o (IF internshalaOn THEN <<"Internshala">> ELSE <<>>)
Pool(plat) == IF plat = "AICTE" THEN {PA1, PA2, PA3} ELSE {PB1, PB2}
SeenCap(impl) == IF impl = "main" THEN SeenCapMain ELSE SeenCapBot
\* the longest file either program writes
SharedFileCap == IF SeenCapMain >= SeenCapBot THEN SeenCapMain ELSE SeenCapBot
ZeroStats == [found |-> 0, filtered |-> 0, new |-> 0]
EmptyStats == [k \in {} |-> ZeroStats]

VARIABLES
    impl,        \* which program runs
    pc,          \* "fatal" (constructor failed) | "idle" | "fetch" | "dedup" | "notify" | "summary" | "error" | "crashed"
    cycle,       \* run_check invocations started
    src,         \* index of the scraper being processed
    failed,      \* indices of scrapers whose processing raised
    stats,       \* platform_stats: platform name -> [found, filtered, new]
    filteredBy,  \* filtered_internships of each processed scraper (history)
    allFiltered, \* all_internships
    loaded,      \* seen set as loaded by get_new_internships
    newList,     \* new_internships
    sends,       \* per-posting sends of this cycle: <<[id, ok]>>
    summaries,   \* summary messages of this cycle
    errNotes,    \* error notifications attempted in this cycle
    fileOk,      \* seen file exists and parses
    fileIds,     \* ids in the seen file
    saveRes,     \* save_seen_internships this cycle: "none" | "ok" | "failed"
    loadOk,      \* load_seen_internships of this cycle read the file
    callAborted, \* the process exited while a network call was in flight
    prevAll,     \* all_internships of the previous cycle
    prevNew,     \* new_internships of the previous cycle
    prevSaveOk,  \* saveRes of the previous cycle
    prevFit,     \* the previous cycle's seen set fitted within the cap
    prevLoaded,  \* seen set loaded by the previous cycle
    enableAicte,       \* main.py config ENABLE_AICTE
    enableInternshala, \* main.py config ENABLE_INTERNSHALA
    cycleLimit,  \* run_check invocations the scheduler makes in the horizon
    fTerms,      \* SpecFilter: preferred_domains given to filter_by_domain
    fIn,         \* SpecFilter: the internships argument
    fOut,        \* SpecFilter: the returned list
    fDone,       \* SpecFilter: filter_by_domain has returned
    idListing,   \* SpecId: the listing (platform, company, name) being polled
    idPosted,    \* SpecId: posted_on text the page shows at each poll
    ids          \* SpecId: internship_id computed at each poll so far

progVars == <<enableAicte, enableInternshala, cycleLimit, loadOk, callAborted, saveRes, impl, pc, cycle, src, failed, stats, filteredBy, allFiltered, loaded, newList,
          sends, summaries, errNotes, fileOk, fileIds, prevAll,
          prevNew, prevSaveOk, prevFit, prevLoaded>>

auxVars == <<fTerms, fIn, fOut, fDone, idListing, idPosted, ids>>

vars == <<progVars, auxVars>>

\* the enabled scrapers in order (bot.py: AICTE only)
Sources(program) == IF program = "main" THEN ScraperList(enableAicte, enableInternshala) ELSE <<"AICTE">>

InitCommon ==
    /\ impl \in Impls
    \* bot.py has no scraper toggles
    /\ enableAicte \in (IF impl = "main" THEN BOOLEAN ELSE {TRUE})
    /\ enableInternshala \in (IF impl = "main" THEN BOOLEAN ELSE {TRUE})
    \* _validate_config raises ValueError when no scraper is enabled; main()
    \* catches it, logs "Fatal error" and calls sys.exit(1), before any run_check
    /\ pc = IF Sources(impl) = <<>> THEN "fatal" ELSE "idle"
    /\ cycle = 0
    /\ src = 1
    /\ failed = {}
    /\ stats = EmptyStats
    /\ filteredBy = EmptyStats
    /\ allFiltered = <<>>
    /\ loaded = {}
    /\ newList = <<>>
    /\ sends = <<>>
    /\ summaries = <<>>
    /\ errNotes = 0
    /\ fileOk \in BOOLEAN
    \* main.py and bot.py share seen_internships.json, and load_seen_internships
    \* accepts any length: the file may come from either program
    /\ fileIds \in IF fileOk THEN {t \in SUBSET Ids : Cardinality(t) <= SharedFileCap}
                   ELSE {{}}
    /\ saveRes = "none"
    /\ loadOk = TRUE
    /\ callAborted = FALSE
    /\ prevAll = <<>>
    /\ prevNew = <<>>
    /\ prevSaveOk = FALSE
    /\ prevFit = FALSE
    /\ prevLoaded = {}

\* the pure-function harness variables, unused by the bot's cycles
AuxIdle ==
    /\ fTerms = <<>>
    /\ fIn = <<>>
    /\ fOut = <<>>
    /\ fDone = FALSE
    /\ idListing = [platform |-> "AICTE", company |-> "Acme", name |-> "ML Intern"]
    /\ idPosted = <<>>
    /\ ids = <<>>

\* one run_check (the immediate run of start_scheduler)
Init == InitCommon /\ cycleLimit = 1 /\ AuxIdle

\* the immediate run followed by scheduled runs
InitTwo == InitCommon /\ cycleLimit = MaxCycles /\ AuxIdle

\* the bot at rest, for the pure-function harnesses
ProgIdle == InitCommon /\ impl = "main" /\ enableAicte /\ enableInternshala
            /\ fileOk = FALSE /\ cycleLimit = 0

BatchBound == IF cycleLimit = 1 THEN MaxBatch ELSE MaxBatchTwo

StartCycleOverlapping ==
    /\ pc \notin {"fatal", "crashed", "exited"}
    /\ cycle < cycleLimit
    /\ pc' = "fetch"
    /\ cycle' = cycle + 1
    /\ src' = 1
    /\ failed' = {}
    /\ stats' = EmptyStats
    /\ filteredBy' = EmptyStats
    /\ allFiltered' = <<>>
    /\ loaded' = {}
    /\ newList' = <<>>
    /\ sends' = <<>>
    /\ summaries' = <<>>
    /\ errNotes' = 0
    /\ prevAll' = allFiltered
    /\ prevNew' = newList
    /\ prevSaveOk' = (saveRes = "ok")
    /\ prevFit' = (Cardinality(loaded \cup IdsOf(newList)) <= SeenCap(impl))
    /\ prevLoaded' = loaded
    /\ saveRes' = "none"
    /\ loadOk' = TRUE
    /\ UNCHANGED <<auxVars, cycleLimit, callAborted, impl, fileOk, fileIds, enableAicte, enableInternshala>>

\* start_scheduler: the immediate first run_check, then schedule.run_pending;
\* both run on the main thread, so a job starts only after the previous
\* run_check has returned
StartCycle ==
    /\ pc = "idle"
    /\ cycle < cycleLimit
    /\ pc' = "fetch"
    /\ cycle' = cycle + 1
    /\ src' = 1
    /\ failed' = {}
    /\ stats' = EmptyStats
    /\ filteredBy' = EmptyStats
    /\ allFiltered' = <<>>
    /\ loaded' = {}
    /\ newList' = <<>>
    /\ sends' = <<>>
    /\ summaries' = <<>>
    /\ errNotes' = 0
    /\ prevAll' = allFiltered
    /\ prevNew' = newList
    /\ prevSaveOk' = (saveRes = "ok")
    /\ prevFit' = (Cardinality(loaded \cup IdsOf(newList)) <= SeenCap(impl))
    /\ prevLoaded' = loaded
    /\ saveRes' = "none"
    /\ loadOk' = TRUE
    /\ UNCHANGED <<auxVars, cycleLimit, callAborted, impl, fileOk, fileIds, enableAicte, enableInternshala>>

AfterSource(i) == IF i < Len(Sources(impl)) THEN "fetch" ELSE "dedup"

\* run_check, one scraper: fetch_internships, filter_by_domain, extend, stats
FetchOk(b) ==
    /\ pc = "fetch"
    /\ LET f == FilterByDomain(b) IN
         /\ allFiltered' = allFiltered \o f
         /\ stats' = stats @@ (Sources(impl)[src] :> [found |-> Len(b), filtered |-> Len(f), new |-> 0])
         /\ filteredBy' = filteredBy @@ (Sources(impl)[src] :> f)
    /\ pc' = AfterSource(src)
    /\ src' = src + 1
    /\ UNCHANGED <<auxVars, cycleLimit, loadOk, callAborted, impl, cycle, failed, loaded, newList, sends, summaries, errNotes,
                   fileOk, fileIds, saveRes, prevAll, prevNew, prevSaveOk, prevFit, prevLoaded, enableAicte, enableInternshala>>

FetchFailBreak ==
    /\ pc = "fetch"
    /\ impl = "main"
    /\ failed' = failed \cup {src}
    /\ stats' = stats @@ (Sources(impl)[src] :> ZeroStats)
    /\ filteredBy' = filteredBy @@ (Sources(impl)[src] :> <<>>)
    /\ pc' = "dedup"
    /\ src' = src + 1
    /\ UNCHANGED <<auxVars, cycleLimit, loadOk, callAborted, impl, cycle, allFiltered, loaded, newList, sends, summaries, errNotes,
                   fileOk, fileIds, saveRes, prevAll, prevNew, prevSaveOk, prevFit, prevLoaded, enableAicte, enableInternshala>>

\* main.py: the scraper's failure is caught (inside fetch_internships, which
\* returns [], or by the per-scraper except); stats {0,0,0}; next scraper.
FetchFail ==
    /\ pc = "fetch"
    /\ impl = "main"
    /\ failed' = failed \cup {src}
    /\ stats' = stats @@ (Sources(impl)[src] :> ZeroStats)
    /\ filteredBy' = filteredBy @@ (Sources(impl)[src] :> <<>>)
    /\ pc' = AfterSource(src)
    /\ src' = src + 1
    /\ UNCHANGED <<auxVars, cycleLimit, loadOk, callAborted, impl, cycle, allFiltered, loaded, newList, sends, summaries, errNotes,
                   fileOk, fileIds, saveRes, prevAll, prevNew, prevSaveOk, prevFit, prevLoaded, enableAicte, enableInternshala>>

\* bot.py: fetch_webpage re-raises, run_check's outer except takes over
FetchRaise ==
    /\ pc = "fetch"
    /\ impl = "bot"
    /\ failed' = failed \cup {src}
    /\ pc' = "error"
    /\ UNCHANGED <<auxVars, cycleLimit, loadOk, callAborted, impl, cycle, src, stats, filteredBy, allFiltered, loaded, newList, sends,
                   summaries, errNotes, fileOk, fileIds, saveRes, prevAll, prevNew, prevSaveOk, prevFit, prevLoaded, enableAicte, enableInternshala>>

LoadSeenAllSeen == IF fileOk THEN fileIds ELSE Ids

\* load_seen_internships: set(data), or set() when the file is missing/bad
LoadSeen == IF fileOk THEN fileIds ELSE {}

\* save_seen_internships: the write is inside try/except, a failure is
\* logged and run_check goes on.  A failed write leaves the file as it was
\* (open failed) or truncated/partial (bad JSON).
SaveSeenInternships(seen2) ==
    /\ \/ /\ saveRes' = "ok"
          /\ fileOk' = TRUE
          /\ fileIds' \in TruncOutcomes(seen2, SeenCap(impl))
       \/ /\ saveRes' = "failed"
          /\ \/ UNCHANGED <<fileOk, fileIds>>
             \/ fileOk' = FALSE /\ fileIds' = {}
    /\ pc' = "notify"

UpdateNewCountsFromFiltered(nl) ==
    IF impl = "main"
    THEN [k \in DOMAIN stats |-> [stats[k] EXCEPT !.new = stats[k].filtered]]
    ELSE stats

\* main.py run_check: platform_stats[platform]['new'] += 1 for each new
\* posting whose platform has an entry; bot.py has no such loop
UpdateNewCounts(nl) ==
    IF impl = "main"
    THEN [k \in DOMAIN stats |->
           [stats[k] EXCEPT !.new = Len(SelectSeq(nl, LAMBDA p : p.platform = k))]]
    ELSE stats

\* get_new_internships (load, diff, add, save), then the stats update loop
GetNewInternships ==
    /\ pc = "dedup"
    /\ LET seen == LoadSeen
           nl == NewOf(allFiltered, seen)
           seen2 == seen \cup IdsOf(nl)
       IN /\ loaded' = seen
          /\ loadOk' = fileOk
          /\ newList' = nl
          /\ SaveSeenInternships(seen2)
          /\ stats' = UpdateNewCounts(nl)
    /\ UNCHANGED <<auxVars, cycleLimit, callAborted, impl, cycle, src, failed, filteredBy, allFiltered, sends, summaries, errNotes,
                   prevAll, prevNew, prevSaveOk, prevFit, prevLoaded, enableAicte, enableInternshala>>

\* an exception escaping the per-source isolation (outside the scraper try)
Escape ==
    /\ pc = "dedup"
    /\ pc' = "error"
    /\ UNCHANGED <<auxVars, cycleLimit, loadOk, callAborted, impl, cycle, src, failed, stats, filteredBy, allFiltered, loaded, newList, sends,
                   summaries, errNotes, fileOk, fileIds, saveRes, prevAll, prevNew, prevSaveOk, prevFit, prevLoaded, enableAicte, enableInternshala>>

\* reply_markup of send_telegram_message_with_apply: main.py attaches the
\* Apply button only when details_url is set; bot.py always attaches one,
\* falling back to the AICTE home page
ReplyMarkupAlwaysFallback(p) ==
    IF p.details_url # "none" THEN p.details_url ELSE "https://internship.aicte-india.org"

ReplyMarkup(p) ==
    IF impl = "main"
    THEN IF p.details_url # "none" THEN p.details_url ELSE "none"
    ELSE IF p.details_url # "none" THEN p.details_url ELSE "https://internship.aicte-india.org"

SendPostingBreakOnFailure ==
    /\ pc = "notify"
    /\ Len(sends) < Len(newList)
    /\ \E ok \in BOOLEAN :
         /\ sends' = Append(sends, [id |-> newList[Len(sends) + 1].id, ok |-> ok,
                                    button |-> ReplyMarkup(newList[Len(sends) + 1])])
         /\ pc' = IF Len(sends) + 1 = Len(newList) \/ ~ok THEN "summary" ELSE "notify"
    /\ UNCHANGED <<auxVars, cycleLimit, loadOk, callAborted, impl, cycle, src, failed, stats, filteredBy, allFiltered, loaded, newList,
                   summaries, errNotes, fileOk, fileIds, saveRes, prevAll, prevNew, prevSaveOk, prevFit, prevLoaded, enableAicte, enableInternshala>>

\* send_telegram_message_with_apply for the next new posting; it catches
\* every exception and returns False, the loop goes on
SendPosting ==
    /\ pc = "notify"
    /\ Len(sends) < Len(newList)
    /\ \E ok \in BOOLEAN :
         sends' = Append(sends, [id |-> newList[Len(sends) + 1].id, ok |-> ok,
                                 button |-> ReplyMarkup(newList[Len(sends) + 1])])
    /\ pc' = IF Len(sends) + 1 = Len(newList) THEN "summary" ELSE "notify"
    /\ UNCHANGED <<auxVars, cycleLimit, loadOk, callAborted, impl, cycle, src, failed, stats, filteredBy, allFiltered, loaded, newList,
                   summaries, errNotes, fileOk, fileIds, saveRes, prevAll, prevNew, prevSaveOk, prevFit, prevLoaded, enableAicte, enableInternshala>>

NoNewToSend ==
    /\ pc = "notify"
    /\ newList = <<>>
    /\ pc' = "summary"
    /\ UNCHANGED <<auxVars, cycleLimit, loadOk, callAborted, impl, cycle, src, failed, stats, filteredBy, allFiltered, loaded, newList, sends,
                   summaries, errNotes, fileOk, fileIds, saveRes, prevAll, prevNew, prevSaveOk, prevFit, prevLoaded, enableAicte, enableInternshala>>

SentCount == Len(SelectSeq(sends, LAMBDA r : r.ok))

\* main.py send_summary: totals over platforms with found > 0, total_new =
\* sent_count; requests.post inside try, result ignored
ShownFound == SumOver({k \in DOMAIN stats : stats[k].found > 0}, [k \in DOMAIN stats |-> stats[k].found])
ShownFiltered == SumOver({k \in DOMAIN stats : stats[k].found > 0}, [k \in DOMAIN stats |-> stats[k].filtered])

SummaryMessageNewCount ==
    IF impl = "main"
    THEN [kind |-> "summary", stats |-> stats, found |-> ShownFound,
          filtered |-> ShownFiltered, new |-> Len(newList)]
    ELSE [kind |-> "placeholder", name |-> "Summary"]

SummaryMessage ==
    IF impl = "main"
    THEN [kind |-> "summary", stats |-> stats, found |-> ShownFound,
          filtered |-> ShownFiltered, new |-> SentCount]
    \* bot.py send_summary builds the text but sends a placeholder posting
    ELSE [kind |-> "placeholder", name |-> "Summary"]

SendSummary ==
    /\ pc = "summary"
    \* a failed requests.post is caught and only logged: the outcome changes nothing
    /\ summaries' = Append(summaries, [msg |-> SummaryMessage])
    /\ pc' = "idle"
    /\ UNCHANGED <<auxVars, cycleLimit, loadOk, callAborted, impl, cycle, src, failed, stats, filteredBy, allFiltered, loaded, newList, sends,
                   errNotes, fileOk, fileIds, saveRes, prevAll, prevNew, prevSaveOk, prevFit, prevLoaded, enableAicte, enableInternshala>>

\* run_check's outer except: error notification attempted (its failure is
\* swallowed), then `raise`; the exception leaves start_scheduler and main()
\* ends with sys.exit(1)
ReportErrorAndRaise ==
    /\ pc = "error"
    /\ errNotes' = errNotes + 1
    /\ pc' = "crashed"
    /\ UNCHANGED <<auxVars, cycleLimit, loadOk, callAborted, impl, cycle, src, failed, stats, filteredBy, allFiltered, loaded, newList, sends,
                   summaries, fileOk, fileIds, saveRes, prevAll, prevNew, prevSaveOk, prevFit, prevLoaded, enableAicte, enableInternshala>>

\* main()'s `except Exception`: logger.error("Fatal error"), then sys.exit(1)
ConfigFatalExit ==
    /\ pc = "fatal"
    /\ pc' = "crashed"
    /\ UNCHANGED <<auxVars, cycleLimit, loadOk, callAborted, impl, cycle, src, failed, stats, filteredBy, allFiltered, loaded, newList, sends,
                   summaries, errNotes, fileOk, fileIds, saveRes, prevAll, prevNew, prevSaveOk, prevFit, prevLoaded, enableAicte, enableInternshala>>

\* phases of run_check that make HTTP requests (requests.post / session.get)
NetPhases == {"fetch", "notify", "summary", "error"}

\* SIGINT/SIGTERM: signal_handler runs in the main thread and calls
\* sys.exit(0); the SystemExit escapes every `except Exception` and ends the
\* process.  CPython runs the handler when the blocking socket call returns
\* EINTR, and the exception it raises abandons that call (PEP 475), so in a
\* network phase the exit may happen with a request in flight.
\* In the error path (pc = "error") the outcome depends on where the signal
\* lands.  Before the notification (logger.error) the SystemExit leaves at
\* once: exit 0, no notification.  main.py's notification sits in a bare
\* `except:` that also catches the SystemExit; the following `raise`
\* re-raises the original error and main() ends with sys.exit(1).  bot.py's
\* send_telegram_message_with_apply only catches Exception: exit 0, the
\* request possibly in flight.  After the notification (the `raise`, or
\* main()'s "Fatal error" log before sys.exit(1)) the exit status is 0; in
\* main.py a first signal may have been swallowed mid-POST by the bare
\* `except:` before a second one arrives there.
Signal ==
    /\ pc \in {"fatal", "idle", "dedup"} \cup NetPhases
    /\ IF pc = "error"
       THEN \/ pc' = "exited" /\ errNotes' = errNotes /\ callAborted' = FALSE
            \/ impl = "main" /\ pc' = "crashed" /\ errNotes' = errNotes /\ callAborted' = FALSE
            \/ impl = "main" /\ pc' = "crashed" /\ errNotes' = errNotes + 1 /\ callAborted' \in BOOLEAN
            \/ pc' = "exited" /\ errNotes' = errNotes + 1 /\ callAborted' \in BOOLEAN
       ELSE /\ \E mid \in (IF pc \in NetPhases THEN BOOLEAN ELSE {FALSE}) : callAborted' = mid
            /\ pc' = "exited"
            /\ errNotes' = errNotes
    /\ UNCHANGED <<auxVars, cycleLimit, loadOk, impl, cycle, src, failed, stats, filteredBy, allFiltered, loaded, newList, sends,
                   summaries, fileOk, fileIds, saveRes, prevAll, prevNew, prevSaveOk, prevFit, prevLoaded, enableAicte, enableInternshala>>

Next ==
    \/ StartCycle
    \/ pc = "fetch" /\ \E b \in SeqsUpTo(Pool(Sources(impl)[src]), BatchBound) : FetchOk(b)
    \/ FetchFail
    \/ FetchRaise
    \/ GetNewInternships
    \/ Escape
    \/ SendPosting
    \/ NoNewToSend
    \/ SendSummary
    \/ ReportErrorAndRaise
    \/ ConfigFatalExit
    \/ Signal

Spec == Init /\ [][Next]_vars

SpecTwo == InitTwo /\ [][Next]_vars

\* ---- filter_by_domain harness ----------------------------------------------
FAlphabet == {"m", "L"}
FCompanies == {<<"x">>, <<"m">>}
FDescriptions == {<<"L">>}
FPostings ==
    {[name |-> n, company |-> c] : n \in SeqsUpTo(FAlphabet, MaxTextLen), c \in FCompanies}
    \cup {[name |-> n, company |-> c, description |-> d] :
             n \in SeqsUpTo(FAlphabet, MaxTextLen), c \in FCompanies, d \in FDescriptions}
\* interest terms: mixed case, one with an inner space, one ending in a space
FTermLists == {<<>>, << <<"M", "l">> >>, << <<"l", " ", "m">> >>,
               << <<"M", "l">>, <<"l", " ", "m">> >>, << <<"m", " ">> >>}

InitFilter ==
    /\ ProgIdle
    /\ fTerms \in FTermLists
    /\ fIn \in SeqsUpTo(FPostings, MaxFilterLen)
    /\ fOut = <<>>
    /\ fDone = FALSE
    /\ idListing = [platform |-> "AICTE", company |-> "Acme", name |-> "ML Intern"]
    /\ idPosted = <<>>
    /\ ids = <<>>

\* InternshipScraper.filter_by_domain(internships)
ApplyFilter ==
    /\ ~fDone
    /\ fOut' = FilterWith(fIn, fTerms)
    /\ fDone' = TRUE
    /\ UNCHANGED <<progVars, fTerms, fIn, idListing, idPosted, ids>>

SpecFilter == InitFilter /\ [][ApplyFilter]_vars

\* ---- internship id harness ---------------------------------------------------
\* internship_id = md5(f"{self.name}-{company}-{name}-{posted_on}"): the
\* digest is taken as injective, so the id is the hashed string itself
InternshipId(plat, company, name, posted) ==
    plat \o "-" \o company \o "-" \o name \o "-" \o posted

IdPlatforms == {"AICTE", "Internshala"}
IdCompanies == {"Acme", "Beta", "Gamma"}
IdNames == {"ML Intern", "Data Intern"}
\* AICTE's '.posted-on span' is a calendar date; Internshala's
\* '.status-success span' is the listing's age, which grows between polls
AicteDates == {"12 Oct 2026", "13 Oct 2026"}
RelativeAges == <<"Just now", "Few hours ago", "1 day ago">>

PostedHistories(plat) ==
    IF plat = "AICTE"
    THEN {[k \in 1..MaxPolls |-> d] : d \in AicteDates}
    ELSE {[k \in 1..MaxPolls |-> RelativeAges[a[k]]] :
            a \in {f \in [1..MaxPolls -> 1..Len(RelativeAges)] :
                     \A k \in 1..(MaxPolls - 1) : f[k] <= f[k + 1]}}

InitId ==
    /\ ProgIdle
    /\ fTerms = <<>> /\ fIn = <<>> /\ fOut = <<>> /\ fDone = FALSE
    /\ idListing \in [platform : IdPlatforms, company : IdCompanies, name : IdNames]
    /\ idPosted \in PostedHistories(idListing.platform)
    /\ ids = <<>>

\* one fetch of the unchanged listing: _parse_html / _parse_internshala_html
PollListing ==
    /\ Len(ids) < MaxPolls
    /\ ids' = Append(ids, InternshipId(idListing.platform, idListing.company,
                                        idListing.name, idPosted[Len(ids) + 1]))
    /\ UNCHANGED <<progVars, fTerms, fIn, fOut, fDone, idListing, idPosted>>

SpecId == InitId /\ [][PollListing]_vars

\* ---- properties -------------------------------------------------------------

\* get_new_internships has run in the current cycle
PastDedup == \/ pc \in {"notify", "summary"}
             \/ pc = "idle" /\ Len(summaries) > 0

\* the current cycle has completed with its summary
CycleDone == pc = "idle" /\ Len(summaries) > 0

\* C1: within one cycle, postings of the batch that share an id absent from
\* the loaded seen set yield exactly one new posting (the first occurrence).
C1_WithinCycleDedup ==
    PastDedup =>
        /\ IdsOf(newList) = IdsOf(allFiltered) \ loaded
        /\ \A j, k \in 1..Len(newList) : j # k => newList[j].id # newList[k].id

\* C2: deduplicating the same list a second time, with the seen-state the
\* first run persisted, yields no new postings.
C2_Idempotence ==
    (PastDedup /\ prevSaveOk /\ allFiltered = prevAll) => newList = <<>>

\* C3: after any number of cycles the persisted seen file never holds more
\* ids than the cap.
C3_BoundedSeenFile == cycle > 0 => Cardinality(fileIds) <= SeenCap(impl)

\* C3 (amended): every successful save leaves at most the running program's
\* cap in the file; a file over that cap (main.py's, read by bot.py) stays
\* over it while bot.py's cycles fail before saving or its writes fail.
C3_SavedFileBounded == saveRes = "ok" => Cardinality(fileIds) <= SeenCap(impl)

C3_Witness ==
    /\ impl = "bot" /\ PastDedup /\ saveRes = "ok"
    /\ Cardinality(loaded) > SeenCap(impl)

\* C4: truncation keeps the most recently inserted ids: every id marked seen
\* in this cycle (when they fit within the cap) is in the file after a save.
C4_KeepsRecentIds ==
    (PastDedup /\ saveRes = "ok" /\ Cardinality(IdsOf(newList)) <= SeenCap(impl))
        => IdsOf(newList) \subseteq fileIds

\* C5: a failing scraper gets stats {0,0,0}; every configured scraper is
\* processed and the postings of the others are filtered, deduplicated and
\* notified.
C5_SourceIsolation ==
    (impl = "main" /\ PastDedup) =>
        /\ DOMAIN stats = {Sources(impl)[k] : k \in 1..Len(Sources(impl))}
        /\ \A k \in failed : stats[Sources(impl)[k]] = [found |-> 0, filtered |-> 0, new |-> 0]
        /\ \A k \in 1..Len(Sources(impl)) : k \notin failed =>
              \A j \in 1..Len(filteredBy[Sources(impl)[k]]) :
                 \E m \in 1..Len(allFiltered) : allFiltered[m] = filteredBy[Sources(impl)[k]][j]
        /\ newList = NewOf(allFiltered, loaded)
        /\ (pc # "notify" => Len(sends) = Len(newList))

C6_EndToEnd ==
    (CycleDone /\ loaded = {} /\ Len(newList) = 2
      /\ \E p \in DOMAIN stats :
            /\ stats[p].found = 3 /\ stats[p].filtered = 2
            /\ \A q \in DOMAIN stats \ {p} : stats[q].found = 0)
    => /\ Len(sends) = 2
       /\ Len(summaries) = 1
       /\ summaries[1].msg.kind = "summary"
       /\ summaries[1].msg.found = 3
       /\ summaries[1].msg.filtered = 2
       /\ \E p \in DOMAIN summaries[1].msg.stats : summaries[1].msg.stats[p].new = 2

\* C7: a cycle that notified postings, followed by a cycle that fetches the
\* same postings (the first cycle's seen-state write having succeeded),
\* sends no posting and a summary with new=0.
C7_NoRenotify ==
    (CycleDone /\ prevSaveOk /\ prevNew # <<>> /\ allFiltered = prevAll)
    => /\ Len(sends) = 0
       /\ summaries[1].msg.kind = "summary" => summaries[1].msg.new = 0

\* C8: one send attempt per new posting, in order; a failed send does not
\* stop the later ones and is not retried.
C8_SendEachOnce ==
    PastDedup =>
        /\ Len(sends) <= Len(newList)
        /\ \A k \in 1..Len(sends) : sends[k].id = newList[k].id
        /\ (pc # "notify" => Len(sends) = Len(newList))

C8_Witness ==
    /\ CycleDone
    /\ \E k \in 1..(Len(sends) - 1) : ~sends[k].ok

\* C9: a cycle past deduplication sends exactly one summary, after all the
\* per-posting sends, carrying the cycle's totals; its failure is non-fatal.
C9_OneSummary ==
    /\ (Len(summaries) > 0 => Len(sends) = Len(newList))
    /\ CycleDone =>
         /\ Len(summaries) = 1
         /\ summaries[1].msg.kind = "summary"
         /\ summaries[1].msg.stats = stats
         /\ summaries[1].msg.found = SumOver(DOMAIN stats, [k \in DOMAIN stats |-> stats[k].found])
         /\ summaries[1].msg.filtered = SumOver(DOMAIN stats, [k \in DOMAIN stats |-> stats[k].filtered])
         /\ summaries[1].msg.new = SentCount

\* C10: a failure escaping the per-source isolation inside run_check is
\* reported and the cycle ends without the process exiting (back to the
\* scheduler, pc = "idle"); leaving run_check's error path other than by a
\* shutdown signal (pc = "exited") is a return to the scheduler.
C10_ErrorNotFatal ==
    [][(pc = "error" /\ pc' # pc /\ pc' # "exited") => (pc' = "idle" /\ errNotes' = errNotes + 1)]_vars


\* C11: a new posting whose send failed, or was never made because the
\* process stopped mid-cycle, is not in the persisted seen-state.
C11_NoMissedPosting ==
    /\ (CycleDone /\ saveRes = "ok") =>
          \A k \in 1..Len(sends) : ~sends[k].ok => sends[k].id \notin fileIds
    /\ (pc = "exited" /\ saveRes = "ok") =>
          \A k \in (Len(sends) + 1)..Len(newList) : newList[k].id \notin fileIds

\* C12: the seen-state is persisted once, at the end of the cycle, after the
\* notifications: no write happens while a new posting is still unsent.
C12_PersistAfterNotify ==
    saveRes # "none" => Len(sends) = Len(newList)

\* C13: when the seen file cannot be read, deduplication uses an empty seen
\* set: every filtered posting is new and the cycle goes on.
C13_ReadFailureEmpty ==
    (PastDedup /\ ~loadOk) => (loaded = {} /\ newList = allFiltered)

C13_Witness == PastDedup /\ ~loadOk /\ Len(newList) > 0

\* C14 (first half): when the seen file cannot be written, the cycle still
\* sends the new postings and the summary (only a signal can stop it).
C14_WriteFailureNonFatal ==
    saveRes = "failed" =>
        /\ pc \in {"notify", "summary", "idle", "exited"}
        /\ pc = "idle" => (Len(sends) = Len(newList) /\ Len(summaries) = 1)

\* C14: a failed seen-state write lets the cycle send the new postings and
\* the summary, and its only effect is that the next cycle may send those
\* postings again: a posting already seen before the failing cycle is not
\* sent by the next one.
C14_WriteFailureOnlyResends ==
    /\ C14_WriteFailureNonFatal
    /\ (cycle > 1 /\ ~prevSaveOk) => \A k \in 1..Len(sends) : sends[k].id \notin prevLoaded

\* C15: filter_by_domain keeps exactly the postings for which some interest
\* term, lowercased, is a substring of the lowercased space-joined title,
\* organization and description (when present), in input order.
FoldCase(c) == CASE c = "M" -> "m" [] c = "L" -> "l" [] OTHER -> c
ClaimText(p) ==
    LET t == p.name \o <<" ">> \o p.company
             \o (IF "description" \in DOMAIN p THEN <<" ">> \o p.description ELSE <<>>)
    IN [k \in 1..Len(t) |-> FoldCase(t[k])]
ClaimKeeps(p, terms) ==
    \E d \in 1..Len(terms) :
        IsSubstr([k \in 1..Len(terms[d]) |-> FoldCase(terms[d][k])], ClaimText(p))

C15_FilterSemantics ==
    fDone => fOut = SelectSeq(fIn, LAMBDA p : ClaimKeeps(p, fTerms))

\* C15 (amended): filter_by_domain keeps exactly the postings for which some
\* interest term, lowercased, is a substring of the lowercased
\* "title organization description" text: fields joined by single spaces,
\* with a trailing space when the posting has no description; input order.
ClaimCodeText(p) ==
    LET t == p.name \o <<" ">> \o p.company \o <<" ">>
             \o (IF "description" \in DOMAIN p THEN p.description ELSE <<>>)
    IN [k \in 1..Len(t) |-> FoldCase(t[k])]
ClaimCodeKeeps(p, terms) ==
    \E d \in 1..Len(terms) :
        IsSubstr([k \in 1..Len(terms[d]) |-> FoldCase(terms[d][k])], ClaimCodeText(p))

C15_FilterSemanticsSpaced ==
    fDone => fOut = SelectSeq(fIn, LAMBDA p : ClaimCodeKeeps(p, fTerms))

C15_Witness ==
    /\ fDone /\ Len(fOut) < Len(fIn)
    /\ \E k \in 1..Len(fOut) :
          /\ "description" \notin DOMAIN fOut[k]
          /\ ~ClaimKeeps(fOut[k], fTerms)
          /\ \E j \in 1..Len(fOut[k].name) : fOut[k].name[j] = "L"

\* C16: with an empty interest-term list no posting matches.
C16_EmptyTermsMatchNothing == (fDone /\ fTerms = <<>>) => fOut = <<>>

C16_Witness == fDone /\ fTerms = <<>> /\ Len(fIn) > 0

\* C17: two fetches of the same unchanged listing give the same id.
C17_IdStable == \A j, k \in 1..Len(ids) : ids[j] = ids[k]

\* C18: a run_check starts only when no earlier run_check is running.
C18_NoOverlap == [][cycle' # cycle => pc = "idle"]_vars

C18_Witness == cycle > 1 /\ pc # "idle"

\* C19: a per-posting notification carries one Apply button exactly when the
\* posting has a URL, and is plain text otherwise.
C19_ApplyButtonIffUrl ==
    \A k \in 1..Len(sends) :
        sends[k].button = IF newList[k].details_url = "none" THEN "none"
                          ELSE newList[k].details_url

\* C19 (amended): main.py attaches the Apply button exactly when the posting
\* has a URL; bot.py always attaches one, linking to the posting URL or, when
\* there is none, to the AICTE home page.
C19_ApplyButtonPerImpl ==
    \A k \in 1..Len(sends) :
        sends[k].button = IF newList[k].details_url # "none" THEN newList[k].details_url
                          ELSE IF impl = "main" THEN "none"
                          ELSE "https://internship.aicte-india.org"

C19_Witness ==
    /\ CycleDone
    /\ \E k \in 1..Len(sends) : newList[k].details_url = "none"

\* C20: on SIGINT/SIGTERM the process exits only after the in-flight network
\* call has finished.
C20_ShutdownAfterCall == pc = "exited" => ~callAborted

\* C21: after the stats update of a main.py cycle, every source has
\* new <= filtered <= found, and the new counts add up to the number of
\* postings get_new_internships returned.
C21_StatsConsistent ==
    (impl = "main" /\ (PastDedup \/ (pc = "exited" /\ saveRes # "none"))) =>
        /\ \A s \in DOMAIN stats :
              stats[s].new <= stats[s].filtered /\ stats[s].filtered <= stats[s].found
        /\ SumOver(DOMAIN stats, [k \in DOMAIN stats |-> stats[k].new]) = Len(newList)

C21_Witness ==
    /\ impl = "main" /\ PastDedup
    /\ \E s \in DOMAIN stats :
          0 < stats[s].new /\ stats[s].new < stats[s].filtered
          /\ stats[s].filtered < stats[s].found

\* C22: the summary's total of new notifications sent is the number of
\* successful per-posting sends, and is below the sum of the per-source new
\* counts whenever a send failed.
C22_SummaryCountsSent ==
    (impl = "main" /\ CycleDone) =>
        /\ summaries[1].msg.new = SentCount
        /\ (\E k \in 1..Len(sends) : ~sends[k].ok) =>
              summaries[1].msg.new < SumOver(DOMAIN stats, [k \in DOMAIN stats |-> stats[k].new])

C22_Witness ==
    /\ impl = "main" /\ CycleDone
    /\ \E k \in 1..Len(sends) : ~sends[k].ok

\* C23: when the previous cycle's seen-state write succeeded without
\* exceeding the cap and this cycle's read succeeds, no posting notified in
\* the previous cycle is sent again.  A cycle reaches the next one only
\* through its summary, so it attempted a send for each of its new postings.
C23_NoCrossCycleRenotify ==
    (cycle > 1 /\ prevSaveOk /\ prevFit /\ loadOk) =>
        \A k \in 1..Len(sends) : sends[k].id \notin IdsOf(prevNew)

C23_Witness ==
    /\ cycle > 1 /\ prevSaveOk /\ prevFit /\ loadOk /\ PastDedup
    /\ prevNew # <<>> /\ allFiltered = prevAll

====
